---------------------------- MODULE Spec2Model ----------------------------
(***************************************************************************)
(* A model of the cgp-dss-data-loader: the bundle parser and batch loader  *)
(* of loader/standard_loader.py and the store registrar of                 *)
(* loader/base_loader.py.                                                  *)
(*                                                                         *)
(* JSON values of the input document are represented by their shape: the   *)
(* JSON type of every value the code subscripts, iterates or tests, and    *)
(* the presence of every key it reads.  Python exceptions are represented  *)
(* by the name of their class; "none" means that no exception was raised.  *)
(***************************************************************************)
EXTENDS Integers, Sequences, FiniteSets, TLC

(***************************************************************************)
(* Bounds of the model.                                                    *)
(***************************************************************************)
MaxBundles == 3        \* longest input list of load_all_bundles
MaxFiles == 1          \* most data_objects entries of a raw bundle given to _parse_bundle
MaxCalls == 2          \* most direct calls of the registrar in one behaviour
MaxFileUuids == 1      \* file uuids the direct calls choose from
MaxLatency == 1        \* longest time a head_file request takes
timeout_seconds == 17  \* parameter of _upload_tagged_cloud_file_to_dss_by_copy (default 1200)
UPLOAD_BACKOFF_FACTOR == 2   \* dss_client.UPLOAD_BACKOFF_FACTOR, an integer stand-in
MaxUrls == 2           \* most cloud urls of one upload_cloud_file_by_reference call

(***************************************************************************)
(* Sequence helpers.                                                       *)
(***************************************************************************)
Range(s) == {s[i] : i \in 1..Len(s)}

SeqsUpTo(S, n) == UNION {[1..k -> S] : k \in 0..n}

(***************************************************************************)
(* The raw document.                                                       *)
(*                                                                         *)
(* A file_guid is a sequence of segments: "u1", "u2" are lower-case UUIDs, *)
(* "U1" is u1 written in upper case, "x" is any text holding no UUID.      *)
(* A timestamp value is "absent" (no such key), "notstr" (a JSON value     *)
(* that is not a string), "bad" (a string that is no date-time), "naive"   *)
(* (an ISO date-time without a timezone designator), "z" (ending in Z) or  *)
(* "offset" (ending in a numeric offset).                                  *)
(***************************************************************************)
GuidSegments == {"u1", "u2", "U1", "x"}

TimeValues == {"absent", "notstr", "bad", "naive", "z", "offset"}

CloudUrls == {"s3://bucket/key", "gs://bucket/key", "https://example.com", "s3://bucketonly"}

\* an entry of a file-info's urls list: a JSON object (has_url: it has the key
\* 'url') or a JSON string (has_url: the text contains the substring 'url')
UrlEntries == [t : {"dict", "str"}, has_url : BOOLEAN, url : CloudUrls]

GoodUrl == [t |-> "dict", has_url |-> TRUE, url |-> "s3://bucket/key"]

GoodFile ==
    [guid |-> <<"x", "u1">>, info |-> "dict", name |-> TRUE,
     updated |-> "absent", created |-> "offset",
     has_urls |-> TRUE, urls |-> <<GoodUrl>>]

GoodBundle ==
    [t |-> "dict", data_bundle |-> "dict", has_id |-> TRUE, id |-> 1,
     has_user_metadata |-> TRUE, data_objects |-> "dict", files |-> <<GoodFile>>]

(***************************************************************************)
(* The parser, loader/standard_loader.py.  Every operator returns a record *)
(* with the exception raised (exc) and the value returned (value).         *)
(***************************************************************************)
NoBundle == [bundle_uuid |-> 0, data_files |-> <<>>]

Lower(seg) == IF seg = "U1" THEN "u1" ELSE seg

IsUuid(seg) == seg \in {"u1", "u2"}

\* _uuid_regex.findall(file_guid.lower())
FindAllUuidsMut(file_guid) == SelectSeq(file_guid, IsUuid)

FindAllUuids(file_guid) ==
    SelectSeq([i \in 1..Len(file_guid) |-> Lower(file_guid[i])], IsUuid)

_get_file_uuid(file_guid) ==
    LET result == FindAllUuids(file_guid)
    IN  IF Len(result) # 1
        THEN [exc |-> "ParseError", value |-> "x"]
        ELSE [exc |-> "none", value |-> result[1]]

\* _rfc3339_regex.fullmatch(value): the optional group is the fraction of a
\* second, the timezone designator (Z or offset) is required
Rfc3339Match(value) == value \in {"z", "offset"}

\* parse_version_key: KeyError is caught (None), fullmatch of a value that is
\* no string raises TypeError
parse_version_key(value) ==
    IF value = "absent" THEN [exc |-> "none", value |-> "None"]
    ELSE IF value = "notstr" THEN [exc |-> "TypeError", value |-> "None"]
    ELSE IF Rfc3339Match(value) THEN [exc |-> "none", value |-> value]
    ELSE [exc |-> "none", value |-> "None"]

_get_file_version(file_info) ==
    LET u == parse_version_key(file_info.updated)
        c == parse_version_key(file_info.created)
    IN  IF u.exc # "none" THEN u
        ELSE IF u.value # "None" THEN u
        ELSE IF c.exc # "none" THEN c
        ELSE IF c.value # "None" THEN c
        ELSE [exc |-> "ParseError", value |-> "None"]

_get_cloud_urls(file_info) ==
    IF ~file_info.has_urls THEN [exc |-> "ParseError", value |-> {}]
    ELSE IF Len(file_info.urls) < 1 THEN [exc |-> "ParseError", value |-> {}]
    ELSE IF \E i \in 1..Len(file_info.urls) : ~file_info.urls[i].has_url
         THEN [exc |-> "ParseError", value |-> {}]
    ELSE IF \E i \in 1..Len(file_info.urls) : file_info.urls[i].t # "dict"
         THEN [exc |-> "TypeError", value |-> {}]     \* url_dict['url'] of a str
    ELSE [exc |-> "none", value |-> {file_info.urls[i].url : i \in 1..Len(file_info.urls)}]

\* the exception classes the handler of line 108 catches: the expression
\* `TypeError or KeyError` evaluates to its first operand
FileTryCaught == {"TypeError"}

\* the body of the loop over data_objects for one entry (lines 105-115)
ParseDataFile(file_info, bundle_uuid) ==
    LET tried == IF file_info.info # "dict" THEN "TypeError"
                 ELSE IF ~file_info.name THEN "KeyError"
                 ELSE "none"
        uuid == _get_file_uuid(file_info.guid)
        version == _get_file_version(file_info)
        urls == _get_cloud_urls(file_info)
        NoFile == [filename |-> "none", file_uuid |-> "x", cloud_urls |-> {},
                   bundle_uuid |-> bundle_uuid, file_guid |-> file_info.guid,
                   file_version |-> "None"]
    IN  IF tried \in FileTryCaught THEN [exc |-> "ParseError", value |-> NoFile]
        ELSE IF tried # "none" THEN [exc |-> tried, value |-> NoFile]
        ELSE IF uuid.exc # "none" THEN [exc |-> uuid.exc, value |-> NoFile]
        ELSE IF version.exc # "none" THEN [exc |-> version.exc, value |-> NoFile]
        ELSE IF urls.exc # "none" THEN [exc |-> urls.exc, value |-> NoFile]
        ELSE [exc |-> "none",
              value |-> [filename |-> "name", file_uuid |-> uuid.value,
                         cloud_urls |-> urls.value, bundle_uuid |-> bundle_uuid,
                         file_guid |-> file_info.guid, file_version |-> version.value]]

RECURSIVE ParseDataFiles(_, _, _)
\* the loop of lines 104-115 over files, parsed_files being the files parsed so far
ParseDataFiles(files, parsed_files, bundle_uuid) ==
    IF files = <<>> THEN [exc |-> "none", value |-> parsed_files]
    ELSE LET r == ParseDataFile(Head(files), bundle_uuid)
         IN  IF r.exc # "none" THEN [exc |-> r.exc, value |-> <<>>]
             ELSE ParseDataFiles(Tail(files), Append(parsed_files, r.value), bundle_uuid)

\* the exception of the first try block (lines 93-100): subscripting a value
\* that is no dict raises TypeError, a missing key raises KeyError
BundleTry(bundle) ==
    IF bundle.t # "dict" THEN "TypeError"
    ELSE IF bundle.data_bundle = "absent" THEN "KeyError"
    ELSE IF bundle.data_bundle # "dict" THEN "TypeError"
    ELSE IF ~bundle.has_id THEN "KeyError"
    ELSE IF ~bundle.has_user_metadata THEN "KeyError"
    ELSE IF bundle.data_objects = "absent" THEN "KeyError"
    ELSE "none"

_parse_bundle(bundle) ==
    LET tried == BundleTry(bundle)
    IN  IF tried = "KeyError" THEN [exc |-> "ParseError", value |-> NoBundle]
        ELSE IF tried # "none" THEN [exc |-> tried, value |-> NoBundle]
        \* iterating a number: TypeError, outside every try block
        ELSE IF bundle.data_objects = "num" THEN [exc |-> "TypeError", value |-> NoBundle]
        \* a non-empty str or a list of strings: data_objects[file_guid] raises
        \* TypeError in the first iteration, which is caught
        ELSE IF bundle.data_objects \in {"str", "list"}
             THEN [exc |-> (IF "TypeError" \in FileTryCaught THEN "ParseError" ELSE "TypeError"),
                   value |-> NoBundle]
        ELSE LET r == ParseDataFiles(bundle.files, <<>>, bundle.id)
             IN  IF r.exc # "none" THEN [exc |-> r.exc, value |-> NoBundle]
                 ELSE [exc |-> "none",
                       value |-> [bundle_uuid |-> bundle.id, data_files |-> r.value]]

(***************************************************************************)
(* Inputs.                                                                 *)
(***************************************************************************)
Guids == {<<"x">>, <<"u1">>, <<"x", "U1">>, <<"u1", "x", "u2">>}

UrlLists ==
    {<<>>, <<GoodUrl>>,
     <<GoodUrl, [t |-> "dict", has_url |-> TRUE, url |-> "gs://bucket/key"]>>,
     <<GoodUrl, [t |-> "dict", has_url |-> FALSE, url |-> "s3://bucket/key"]>>,
     <<[t |-> "str", has_url |-> FALSE, url |-> "s3://bucket/key"]>>,
     <<[t |-> "str", has_url |-> TRUE, url |-> "s3://bucket/key"]>>,
     <<[t |-> "dict", has_url |-> TRUE, url |-> "https://example.com"]>>,
     <<[t |-> "dict", has_url |-> TRUE, url |-> "s3://bucketonly"]>>}

\* file-infos that differ from GoodFile in one respect
FileVariants ==
    {[GoodFile EXCEPT !.guid = g] : g \in Guids}
    \cup {[GoodFile EXCEPT !.updated = u, !.created = c] : u \in TimeValues, c \in TimeValues}
    \cup {[GoodFile EXCEPT !.urls = l] : l \in UrlLists}
    \cup {[GoodFile EXCEPT !.has_urls = FALSE, !.urls = <<>>],
          [GoodFile EXCEPT !.info = "str"],
          [GoodFile EXCEPT !.name = FALSE]}

\* the raw entries given to _parse_bundle: every shape of the bundle container
\* with no file or with one good file, and a good container with every list of
\* at most MaxFiles file-infos
RawBundles ==
    [t : {"dict", "list"}, data_bundle : {"absent", "dict", "str"}, has_id : BOOLEAN,
     id : {1}, has_user_metadata : BOOLEAN,
     data_objects : {"absent", "dict", "str", "list", "num"}, files : {<<>>}]
    \cup {[GoodBundle EXCEPT !.files = fs] : fs \in SeqsUpTo(FileVariants, MaxFiles)}

NoDataBundle == [GoodBundle EXCEPT !.data_bundle = "absent", !.id = 2]

NoNameBundle == [GoodBundle EXCEPT !.files = <<[GoodFile EXCEPT !.name = FALSE]>>, !.id = 3]

\* a bundle that parses, its data file having a url that cannot be loaded
BadUrlBundle ==
    [GoodBundle EXCEPT
        !.files = <<[GoodFile EXCEPT
                        !.urls = <<[t |-> "dict", has_url |-> TRUE,
                                    url |-> "https://example.com"]>>]>>,
        !.id = 4]

\* the entries of the documents given to load_all_bundles
SampleBundles == {GoodBundle, NoDataBundle, NoNameBundle}

\* the documents given to load_all_bundles: a list of entries, or a JSON
\* object or string of some length, or null; len is the value of len()
Documents ==
    {[t |-> "list", items |-> l, len |-> Len(l)] : l \in SeqsUpTo(SampleBundles, MaxBundles)}
    \cup {[t |-> "list", items |-> <<BadUrlBundle>>, len |-> 1]}
    \cup {[t |-> k, items |-> <<>>, len |-> n] : k \in {"dict", "str"}, n \in {0, 2}}
    \cup {[t |-> "null", items |-> <<>>, len |-> 0]}

(***************************************************************************)
(* The state.                                                              *)
(***************************************************************************)
VARIABLES
    dry_run,                  \* DssUploader.dry_run
    input_json,               \* the document given to load_all_bundles
    bundles_parsed,           \* the four lists of load_all_bundles; a bundle is
    bundles_failed_unparsed,  \*   represented by its position in input_json
    bundles_loaded,
    bundles_failed_parsed,
    pc,                       \* position of the caller of the registrar
    count,                    \* the loop index (enumerate) of the running loop
    pending_exc,              \* the exception propagating to the finally block
    raised,                   \* the exception the finished call propagated ("none": it returned)
    interrupted,              \* the KeyboardInterrupt handler of line 205 has run
    bundles_unattempted,      \* line 209
    summary,                  \* the last summary line logged: "none", "counts" or "all"
    attempted,                \* history: the parsed bundles _load_bundle was called for
    load_raised,              \* history: <<bundle, exception>> for every _load_bundle that raised
    file_info_list,           \* line 122, 132, 146
    bundle_requests,          \* the put_bundle requests issued to the store (line 439)
    parse_result,             \* the result of the last call of _parse_bundle
    rpc,                      \* position of the registrar
    r_key,                    \* <<file_uuid, file_version>> being registered
    r_status,                 \* status code of the put_file response
    now,                      \* time since line 549 ran
    wait,                     \* line 550, 563
    polls,                    \* head_file requests of the running call
    r_result,                 \* the tuple the registrar returned, or << >>
    r_exc,                    \* the exception the registrar raised, and its message
    store,                    \* the destination store: key -> [state, writes]
    staged,                   \* uploads to the staging bucket
    put_requests,             \* put_file requests issued to the store
    next_uuid,                \* the next value of uuid.uuid4()
    history,                  \* the direct calls of the registrar that ended
    aws_meta_cred,            \* DssUploader.aws_meta_cred is set (s3_metadata_client is not None)
    gcp_meta_cred,            \* DssUploader.gcp_meta_cred is set (gs_metadata_client is not None)
    fpc,                      \* position of upload_cloud_file_by_reference
    f_order,                  \* file_cloud_urls in the order the loop of line 303 iterates the set
    f_urls,                   \* the urls the loop has still to iterate
    f_size,                   \* the size argument
    s3_metadata,              \* line 301, 310
    gs_metadata,              \* line 302, 312
    attempt_refresh,          \* the parameter of get_s3_file_head_response
    refreshes,                \* credential refreshes of the current metadata fetch
    f_attempts,               \* the head requests of the current metadata fetch: client and answer
    f_warned,                 \* the warning classes the current metadata fetch emitted
    f_last,                   \* provider of the current metadata fetch
    f_observed,               \* the sizes the providers reported in this call
    file_reference            \* the result of _create_file_reference

listVars == <<bundles_parsed, bundles_failed_unparsed, bundles_loaded, bundles_failed_parsed>>

batchVars == <<input_json, listVars, count, pending_exc, raised, interrupted,
               bundles_unattempted, summary, attempted, load_raised>>

regVars == <<rpc, r_key, r_status, now, wait, polls, r_result, r_exc>>

storeVars == <<store, staged, put_requests, next_uuid>>

fetchVars == <<aws_meta_cred, gcp_meta_cred, fpc, f_order, f_urls, f_size, s3_metadata,
               gs_metadata, attempt_refresh, refreshes, f_attempts, f_warned, f_last,
               f_observed, file_reference>>

bundleVars == <<file_info_list, bundle_requests>>

vars == <<dry_run, batchVars, pc, parse_result, regVars, storeVars, history, fetchVars,
          bundleVars>>

(***************************************************************************)
(* The destination store, as the registrar sees it through dss_client: an  *)
(* object per key <<uuid, version>>, absent, pending (an asynchronous copy *)
(* was accepted) or present, and the number of times it was written.       *)
(***************************************************************************)
EmptyStore == [k \in {} |-> 0]

StoreState(k) == IF k \in DOMAIN store THEN store[k].state ELSE "absent"

StoreWrites(k) == IF k \in DOMAIN store THEN store[k].writes ELSE 0

StoreSet(k, st, w) == (k :> [state |-> st, writes |-> w]) @@ store

\* status codes of the replies to put_file: 200 when the file is already present,
\* 201 after a synchronous copy, 202 when an asynchronous copy was started or is
\* under way; 500 stands for every other status
PutReplies(k) ==
    CASE StoreState(k) = "present" -> {200, 500}
      [] StoreState(k) = "pending" -> {202, 500}
      [] OTHER -> {201, 202, 500}

StoreAfterPut(k, code) ==
    IF code = 201 THEN StoreSet(k, "present", StoreWrites(k) + 1)
    ELSE IF code = 202 THEN StoreSet(k, "pending", StoreWrites(k))
    ELSE store

\* codes of the replies to head_file: 200 found, 404 not found, 500 any other
HeadReplies(k) == IF StoreState(k) = "present" THEN {200, 500} ELSE {404, 500}

\* the store finishes an asynchronous copy
StoreCopyCompletes ==
    /\ \E k \in DOMAIN store :
          /\ store[k].state = "pending"
          /\ store' = StoreSet(k, "present", store[k].writes + 1)
    /\ UNCHANGED <<dry_run, bundleVars, fetchVars, batchVars, pc, parse_result, regVars, staged,
                   put_requests, next_uuid, history>>

(***************************************************************************)
(* The registrar, loader/base_loader.py: upload_local_file and             *)
(* _upload_tagged_cloud_file_to_dss_by_copy.                               *)
(***************************************************************************)
Min(a, b) == IF a < b THEN a ELSE b

Rfc3339Version(v) == [fmt |-> "rfc3339", v |-> v]

\* response.json().get('version', "blank"): the version as the store formats it
ResponseVersion(code, v) ==
    IF code \in {200, 201, 202} THEN [fmt |-> "dss", v |-> v] ELSE [fmt |-> "blank", v |-> 0]

\* line 539
AlreadyPresentMut(code) == code # 201

AlreadyPresentAlways(code) == code \in {200, 201}

AlreadyPresent(code) == code = 200

\* the value of lines 528 and 571
ResultTuple(file_uuid, file_version, filename, already_present) ==
    <<file_uuid, file_version, filename, already_present>>

\* get_filename_from_key of the staged key
Filename == IF pc = "direct" THEN "name" ELSE "metadata.json"

WaitStart == 1

WaitCap == 10

\* the registrar is entered for key k: upload_local_file
RegistrarEntered(k) ==
    /\ rpc' = "stage"
    /\ r_key' = k
    /\ r_status' = 0
    /\ now' = 0
    /\ wait' = WaitStart
    /\ polls' = 0
    /\ r_result' = <<>>
    /\ r_exc' = [class |-> "none", msg |-> "none"]

\* _upload_local_file_to_staging (line 415): the upload to the staging bucket
\* and its tagging succeed (ok) or raise the provider's error
StageUpload ==
    /\ rpc = "stage"
    /\ \E ok \in BOOLEAN :
          IF ok
          THEN /\ staged' = staged + 1
               /\ rpc' = "put"
               /\ UNCHANGED r_exc
          ELSE /\ rpc' = "raised"
               /\ r_exc' = [class |-> "ClientError", msg |-> "staging"]
               /\ UNCHANGED staged
    /\ UNCHANGED <<dry_run, bundleVars, fetchVars, batchVars, pc, parse_result, r_key, r_status, now, wait,
                   polls, r_result, store, put_requests, next_uuid, history>>

\* lines 521-547 and 568-571: the dry run, or the put_file request and its reply
PutFile ==
    /\ rpc = "put"
    /\ IF dry_run
       THEN /\ r_result' = ResultTuple(r_key[1], Rfc3339Version(r_key[2]), Filename, FALSE)
            /\ rpc' = "returned"
            /\ UNCHANGED <<r_status, r_exc, store, put_requests>>
       ELSE \E code \in PutReplies(r_key) :
            /\ put_requests' = put_requests + 1
            /\ store' = StoreAfterPut(r_key, code)
            /\ r_status' = code
            /\ IF code \in {200, 201}
               THEN /\ r_result' = ResultTuple(r_key[1], ResponseVersion(code, r_key[2]),
                                               Filename, AlreadyPresent(code))
                    /\ rpc' = "returned"
                    /\ UNCHANGED r_exc
               ELSE IF code = 202
               THEN /\ rpc' = "poll"
                    /\ UNCHANGED <<r_result, r_exc>>
               ELSE /\ rpc' = "raised"
                    /\ r_exc' = [class |-> "UnexpectedResponseError", msg |-> "unexpected response code"]
                    /\ UNCHANGED r_result
    /\ now' = 0
    /\ wait' = WaitStart
    /\ UNCHANGED <<dry_run, bundleVars, fetchVars, batchVars, pc, parse_result, r_key, polls, staged,
                   next_uuid, history>>

\* line 552
BeforeDeadlineMut(t) == t <= timeout_seconds

BeforeDeadline(t) == t < timeout_seconds

\* lines 552-561 and 564-571: one test of the loop condition and, when it holds,
\* one head_file request, which takes d and is answered with code
HeadFile ==
    /\ rpc = "poll"
    /\ IF BeforeDeadline(now)
       THEN \E d \in 0..MaxLatency, code \in HeadReplies(r_key) :
            /\ polls' = polls + 1
            /\ now' = now + d
            /\ IF code = 200
               THEN /\ r_result' = ResultTuple(r_key[1], ResponseVersion(r_status, r_key[2]),
                                               Filename, AlreadyPresent(r_status))
                    /\ rpc' = "returned"
                    /\ UNCHANGED r_exc
               ELSE IF code = 404
               THEN /\ rpc' = "sleep"
                    /\ UNCHANGED <<r_result, r_exc>>
               ELSE /\ rpc' = "raised"
                    /\ r_exc' = [class |-> "RuntimeError",
                                 msg |-> "Unexpected server response during registration"]
                    /\ UNCHANGED r_result
       ELSE /\ rpc' = "raised"
            /\ r_exc' = [class |-> "RuntimeError", msg |-> "registration FAILED"]
            /\ UNCHANGED <<polls, now, r_result>>
    /\ UNCHANGED <<dry_run, bundleVars, fetchVars, batchVars, pc, parse_result, r_key, r_status, wait,
                   storeVars, history>>

\* lines 562-563
SleepMut ==
    /\ rpc = "sleep"
    /\ now' = now + wait
    /\ wait' = wait * UPLOAD_BACKOFF_FACTOR
    /\ rpc' = "poll"
    /\ UNCHANGED <<dry_run, bundleVars, fetchVars, batchVars, pc, parse_result, r_key, r_status, polls,
                   r_result, r_exc, storeVars, history>>

Sleep ==
    /\ rpc = "sleep"
    /\ now' = now + wait
    /\ wait' = Min(WaitCap, wait * UPLOAD_BACKOFF_FACTOR)
    /\ rpc' = "poll"
    /\ UNCHANGED <<dry_run, bundleVars, fetchVars, batchVars, pc, parse_result, r_key, r_status, polls,
                   r_result, r_exc, storeVars, history>>

RegistrarIdle ==
    /\ rpc' = "idle"
    /\ UNCHANGED <<r_key, r_status, now, wait, polls, r_result, r_exc>>

(***************************************************************************)
(* Direct calls of the registrar, as tests/test_standard_loader.py makes   *)
(* them: one after the other, each for a file uuid and a version.          *)
(***************************************************************************)
FileUuids == 1..MaxFileUuids

CallUpload ==
    /\ pc = "idle"
    /\ Len(history) < MaxCalls
    /\ \E u \in FileUuids : RegistrarEntered(<<u, 1>>)
    /\ pc' = "direct"
    /\ UNCHANGED <<dry_run, bundleVars, fetchVars, batchVars, parse_result, storeVars, history>>

CallEnds ==
    /\ pc = "direct"
    /\ rpc \in {"returned", "raised"}
    /\ history' = Append(history, [key |-> r_key, outcome |-> rpc, result |-> r_result,
                                   exc |-> r_exc, status |-> r_status])
    /\ pc' = "idle"
    /\ RegistrarIdle
    /\ UNCHANGED <<dry_run, bundleVars, fetchVars, batchVars, parse_result, storeVars>>

(***************************************************************************)
(* Loading by reference, loader/base_loader.py:                            *)
(* upload_cloud_file_by_reference with the metadata fetches                *)
(* get_s3_file_metadata and get_gs_file_metadata, called directly as       *)
(* tests/test_standard_loader.py calls it.                                 *)
(*                                                                         *)
(* A cloud url is represented by what urlparse makes of it: its scheme,    *)
(* its netloc (the bucket) and its path without the leading slash (the     *)
(* key).  A metadata dict is represented by its 'size' entry.              *)
(***************************************************************************)
S3Url1 == [scheme |-> "s3", bucket |-> "bucket", key |-> "key1"]

S3Url2 == [scheme |-> "s3", bucket |-> "bucket", key |-> "key2"]

GsUrl == [scheme |-> "gs", bucket |-> "bucket", key |-> "key"]

\* s3://bucketonly
NoKeyUrl == [scheme |-> "s3", bucket |-> "bucketonly", key |-> ""]

\* https://example.com/file
HttpsUrl == [scheme |-> "https", bucket |-> "example.com", key |-> "file"]

RefUrls == {S3Url1, S3Url2, GsUrl, NoKeyUrl, HttpsUrl}

\* a set of urls in one of the orders a Python set may be iterated in
UrlOrders ==
    {o \in SeqsUpTo(RefUrls, MaxUrls) : \A i, j \in 1..Len(o) : i # j => o[i] # o[j]}

\* the size argument: None, a text that is no number, or a number
DeclaredSizes ==
    {[t |-> "None", n |-> 0], [t |-> "text", n |-> 0],
     [t |-> "int", n |-> 0], [t |-> "int", n |-> 100]}

\* the sizes of the objects at the providers
ObservedSizes == {0, 100, 200}

EmptyMetadata == [has_size |-> FALSE, size |-> 0]

Metadata(n) == [has_size |-> TRUE, size |-> n]

NoReference == [state |-> "none", size |-> 0]

\* the answers to head_object: the response, or a ClientError with a code
HeadObjectReplies ==
    {[code |-> "200", size |-> n] : n \in ObservedSizes}
    \cup {[code |-> c, size |-> 0] : c \in {"404", "403", "401", "500"}}

\* the answers to get_blob: a blob, None (404) or the Forbidden exception (403)
GetBlobReplies ==
    {[code |-> "200", size |-> n] : n \in ObservedSizes}
    \cup {[code |-> c, size |-> 0] : c \in {"404", "403"}}

\* lines 200 and 236: the metadata client if there is one, else the default client
MetadataClientMut(meta_cred) == "primary"

MetadataClient(meta_cred) == IF meta_cred THEN "elevated" ELSE "primary"

\* an exception leaves upload_cloud_file_by_reference
RefRaise(class, where) ==
    /\ rpc' = "raised"
    /\ r_exc' = [class |-> class, msg |-> where]
    /\ fpc' = "idle"
    /\ UNCHANGED <<r_key, r_status, now, wait, polls, r_result>>

\* lines 364-368 and 300-302: upload_cloud_file_by_reference is called
CallReference ==
    /\ pc = "idle"
    /\ history = <<>>
    /\ \E u \in FileUuids : r_key' = <<u, 1>>
    /\ rpc' = "idle"
    /\ r_status' = 0
    /\ now' = 0
    /\ wait' = WaitStart
    /\ polls' = 0
    /\ r_result' = <<>>
    /\ r_exc' = [class |-> "none", msg |-> "none"]
    /\ \E o \in UrlOrders : f_order' = o /\ f_urls' = o
    /\ f_size' \in DeclaredSizes
    /\ s3_metadata' = EmptyMetadata
    /\ gs_metadata' = EmptyMetadata
    /\ attempt_refresh' = TRUE
    /\ refreshes' = 0
    /\ f_attempts' = <<>>
    /\ f_warned' = {}
    /\ f_last' = "none"
    /\ f_observed' = {}
    /\ file_reference' = NoReference
    /\ fpc' = "loop"
    /\ pc' = "direct"
    /\ UNCHANGED <<dry_run, bundleVars, batchVars, parse_result, storeVars, history,
                   aws_meta_cred, gcp_meta_cred>>

\* lines 304-314: what the loop does with a url
UrlCheckMut(url) ==
    IF url.scheme = "s3" THEN "s3"
    ELSE IF url.scheme = "gs" THEN "gs"
    ELSE "FileURLError"

UrlCheck(url) ==
    IF url.bucket = "" \/ url.key = "" THEN "FileURLError"
    ELSE IF url.scheme = "s3" THEN "s3"
    ELSE IF url.scheme = "gs" THEN "gs"
    ELSE "FileURLError"

\* lines 303-315: the loop takes the next url, or ends
RefLoopMut ==
    /\ fpc = "loop"
    /\ IF f_urls = <<>> \/ f_urls # f_order
       THEN /\ fpc' = "consolidate"
            /\ UNCHANGED <<regVars, attempt_refresh, refreshes, f_attempts, f_warned, f_last>>
       ELSE LET todo == UrlCheck(Head(f_urls))
            IN  IF todo = "FileURLError"
                THEN /\ RefRaise("FileURLError", "url")
                     /\ UNCHANGED <<attempt_refresh, refreshes, f_attempts, f_warned, f_last>>
                ELSE /\ fpc' = IF todo = "s3" THEN "s3_head" ELSE "gs_get"
                     /\ f_last' = todo
                     /\ attempt_refresh' = TRUE
                     /\ refreshes' = 0
                     /\ f_attempts' = <<>>
                     /\ f_warned' = {}
                     /\ UNCHANGED regVars
    /\ UNCHANGED <<dry_run, bundleVars, batchVars, pc, parse_result, storeVars, history,
                   aws_meta_cred, gcp_meta_cred, f_order, f_urls, f_size,
                   s3_metadata, gs_metadata, f_observed, file_reference>>

RefLoop ==
    /\ fpc = "loop"
    /\ IF f_urls = <<>>
       THEN /\ fpc' = "consolidate"
            /\ UNCHANGED <<regVars, attempt_refresh, refreshes, f_attempts, f_warned, f_last>>
       ELSE LET todo == UrlCheck(Head(f_urls))
            IN  IF todo = "FileURLError"
                THEN /\ RefRaise("FileURLError", "url")
                     /\ UNCHANGED <<attempt_refresh, refreshes, f_attempts, f_warned, f_last>>
                ELSE /\ fpc' = IF todo = "s3" THEN "s3_head" ELSE "gs_get"
                     /\ f_last' = todo
                     /\ attempt_refresh' = TRUE
                     /\ refreshes' = 0
                     /\ f_attempts' = <<>>
                     /\ f_warned' = {}
                     /\ UNCHANGED regVars
    /\ UNCHANGED <<dry_run, bundleVars, batchVars, pc, parse_result, storeVars, history,
                   aws_meta_cred, gcp_meta_cred, f_order, f_urls, f_size,
                   s3_metadata, gs_metadata, f_observed, file_reference>>

\* lines 177-189: the branch handle_s3_client_error takes
handle_s3_client_errorMut(err_code, attempt) ==
    IF err_code = "404" THEN "CloudUrlNotFound"
    ELSE IF err_code \in {"403", "401"} /\ aws_meta_cred THEN "refresh"
    ELSE "CloudUrlAccessWarning"

handle_s3_client_error(err_code, attempt) ==
    IF err_code = "404" THEN "CloudUrlNotFound"
    ELSE IF err_code \in {"403", "401"} /\ aws_meta_cred /\ attempt THEN "refresh"
    ELSE "CloudUrlAccessWarning"

\* lines 214-225: the metadata made of a head response (an empty dict after an
\* error); the KeyError of a missing field is caught
get_s3_file_metadataMut(reply) ==
    IF reply.code = "200"
    THEN [exc |-> "none", value |-> Metadata(reply.size)]
    ELSE [exc |-> "KeyError", value |-> EmptyMetadata]

get_s3_file_metadata(reply) ==
    IF reply.code = "200"
    THEN [exc |-> "none", value |-> Metadata(reply.size)]
    ELSE [exc |-> "none", value |-> EmptyMetadata]

\* lines 200-204, 177-189 and 214-225: one head_object request of
\* get_s3_file_head_response and what follows its answer
S3Head ==
    /\ fpc = "s3_head"
    /\ \E reply \in HeadObjectReplies :
          LET branch == IF reply.code = "200" THEN "response"
                        ELSE handle_s3_client_error(reply.code, attempt_refresh)
              metadata == get_s3_file_metadata(reply)
          IN  /\ f_attempts' = Append(f_attempts,
                                      [client |-> MetadataClient(aws_meta_cred),
                                       code |-> reply.code])
              /\ IF branch = "refresh"
                 THEN /\ fpc' = "s3_refresh"
                      /\ UNCHANGED <<regVars, f_urls, s3_metadata, f_warned, f_observed>>
                 ELSE /\ f_warned' = IF branch = "response" THEN f_warned
                                     ELSE f_warned \cup {branch}
                      /\ IF metadata.exc # "none"
                         THEN /\ RefRaise(metadata.exc, "s3")
                              /\ UNCHANGED <<f_urls, s3_metadata, f_observed>>
                         ELSE /\ s3_metadata' = metadata.value
                              /\ f_observed' = IF metadata.value.has_size
                                               THEN f_observed \cup {metadata.value.size}
                                               ELSE f_observed
                              /\ f_urls' = Tail(f_urls)
                              /\ fpc' = "loop"
                              /\ UNCHANGED regVars
    /\ UNCHANGED <<dry_run, bundleVars, batchVars, pc, parse_result, storeVars, history,
                   aws_meta_cred, gcp_meta_cred, f_order, f_size, gs_metadata,
                   attempt_refresh, refreshes, f_last, file_reference>>

\* lines 183-184: the metadata credentials are refreshed (assume_role, which
\* succeeds or raises) and the request is made once more
S3Refresh ==
    /\ fpc = "s3_refresh"
    /\ refreshes' = refreshes + 1
    /\ \E ok \in BOOLEAN :
          IF ok
          THEN /\ attempt_refresh' = FALSE
               /\ fpc' = "s3_head"
               /\ UNCHANGED regVars
          ELSE /\ RefRaise("ClientError", "refresh")
               /\ UNCHANGED attempt_refresh
    /\ UNCHANGED <<dry_run, bundleVars, batchVars, pc, parse_result, storeVars, history,
                   aws_meta_cred, gcp_meta_cred, f_order, f_urls, f_size, s3_metadata,
                   gs_metadata, f_attempts, f_warned, f_last, f_observed, file_reference>>

\* lines 235-250: get_blob returns the blob or None, or raises Forbidden
get_gs_file_metadataMut(reply) ==
    IF reply.code = "200"
    THEN [exc |-> "none", value |-> Metadata(reply.size), warned |-> {}]
    ELSE [exc |-> "none", value |-> EmptyMetadata, warned |-> {"CloudUrlNotFound"}]

get_gs_file_metadata(reply) ==
    IF reply.code = "200"
    THEN [exc |-> "none", value |-> Metadata(reply.size), warned |-> {}]
    ELSE IF reply.code = "404"
    THEN [exc |-> "none", value |-> EmptyMetadata, warned |-> {"CloudUrlNotFound"}]
    ELSE [exc |-> "Forbidden", value |-> EmptyMetadata, warned |-> {}]

GsGet ==
    /\ fpc = "gs_get"
    /\ \E reply \in GetBlobReplies :
          LET metadata == get_gs_file_metadata(reply)
          IN  /\ f_attempts' = Append(f_attempts,
                                      [client |-> MetadataClient(gcp_meta_cred),
                                       code |-> reply.code])
              /\ f_warned' = metadata.warned
              /\ IF metadata.exc # "none"
                 THEN /\ RefRaise(metadata.exc, "gs")
                      /\ UNCHANGED <<f_urls, gs_metadata, f_observed>>
                 ELSE /\ gs_metadata' = metadata.value
                      /\ f_observed' = IF metadata.value.has_size
                                       THEN f_observed \cup {metadata.value.size}
                                       ELSE f_observed
                      /\ f_urls' = Tail(f_urls)
                      /\ fpc' = "loop"
                      /\ UNCHANGED regVars
    /\ UNCHANGED <<dry_run, bundleVars, batchVars, pc, parse_result, storeVars, history,
                   aws_meta_cred, gcp_meta_cred, f_order, f_size, s3_metadata,
                   attempt_refresh, refreshes, f_last, file_reference>>

\* `if s3_size and ...` (lines 345, 349): a size of 0 is falsy
TruthyMut(metadata) == metadata.has_size

Truthy(metadata) == metadata.has_size /\ metadata.size # 0

\* lines 337-353
_check_file_size_consistency(input_size, s3, gs) ==
    IF input_size.t = "None" THEN [exc |-> "MissingInputFileSize", value |-> 0]
    ELSE IF input_size.t = "text" THEN [exc |-> "ValueError", value |-> 0]
    ELSE IF Truthy(s3) /\ input_size.n # s3.size
         THEN [exc |-> "InconsistentFileSizeValues", value |-> 0]
    ELSE IF Truthy(gs) /\ input_size.n # gs.size
         THEN [exc |-> "InconsistentFileSizeValues", value |-> 0]
    ELSE [exc |-> "none", value |-> input_size.n]

\* lines 315, 355-362 and 368-373: the metadata is consolidated and the file
\* reference is given to upload_dict_as_file, which enters the registrar
Consolidate ==
    /\ fpc = "consolidate"
    /\ LET checked == _check_file_size_consistency(f_size, s3_metadata, gs_metadata)
       IN  IF checked.exc # "none"
           THEN /\ RefRaise(checked.exc, "size")
                /\ file_reference' = [state |-> "failed", size |-> 0]
           ELSE /\ file_reference' = [state |-> "built", size |-> checked.value]
                /\ fpc' = "idle"
                /\ RegistrarEntered(r_key)
    /\ UNCHANGED <<dry_run, bundleVars, batchVars, pc, parse_result, storeVars, history,
                   aws_meta_cred, gcp_meta_cred, f_order, f_urls, f_size, s3_metadata,
                   gs_metadata, attempt_refresh, refreshes, f_attempts, f_warned,
                   f_last, f_observed>>

(***************************************************************************)
(* The batch loader, loader/standard_loader.py: load_all_bundles with      *)
(* _parse_all_bundles, _load_all_bundles and _load_bundle.                 *)
(***************************************************************************)
\* len(input_json) of line 197: null has no len()
HasLen(doc) == doc.t \in {"list", "dict", "str"}

\* line 197, before the try block
EnterLoadAll ==
    /\ pc = "start"
    /\ IF HasLen(input_json)
       THEN pc' = "parse_check" /\ UNCHANGED raised
       ELSE pc' = "done" /\ raised' = "TypeError"
    /\ UNCHANGED <<dry_run, bundleVars, fetchVars, input_json, listVars, count, pending_exc, interrupted,
                   bundles_unattempted, summary, attempted, load_raised,
                   parse_result, regVars, storeVars, history>>

\* lines 161-162
IsList(doc) == doc.t = "list"

ParseCheck ==
    /\ pc = "parse_check"
    /\ IF IsList(input_json)
       THEN pc' = "parsing" /\ UNCHANGED pending_exc
       ELSE pc' = "finally" /\ pending_exc' = "ParseError"
    /\ count' = 0
    /\ UNCHANGED <<dry_run, bundleVars, fetchVars, input_json, listVars, raised, interrupted,
                   bundles_unattempted, summary, attempted, load_raised,
                   parse_result, regVars, storeVars, history>>

\* the exception classes the handler of line 168 catches
ParseAllCaught == {"ParseError"}

\* lines 164-171: one iteration of the loop of _parse_all_bundles
ParseNext ==
    /\ pc = "parsing"
    /\ count < Len(input_json.items)
    /\ LET r == _parse_bundle(input_json.items[count + 1])
       IN  /\ parse_result' = r
           /\ IF r.exc = "none"
              THEN /\ bundles_parsed' = Append(bundles_parsed, count + 1)
                   /\ count' = count + 1
                   /\ UNCHANGED <<bundles_failed_unparsed, pc, pending_exc>>
              ELSE IF r.exc \in ParseAllCaught
              THEN /\ bundles_failed_unparsed' = Append(bundles_failed_unparsed, count + 1)
                   /\ count' = count + 1
                   /\ UNCHANGED <<bundles_parsed, pc, pending_exc>>
              ELSE /\ pc' = "finally"
                   /\ pending_exc' = r.exc
                   /\ UNCHANGED <<bundles_parsed, bundles_failed_unparsed, count>>
    /\ UNCHANGED <<dry_run, bundleVars, fetchVars, input_json, bundles_loaded, bundles_failed_parsed, raised,
                   interrupted, bundles_unattempted, summary, attempted, load_raised,
                   regVars, storeVars, history>>

\* the loop of _parse_all_bundles ends, line 204 calls _load_all_bundles
ParseAllReturns ==
    /\ pc = "parsing"
    /\ count = Len(input_json.items)
    /\ pc' = "loading"
    /\ count' = 0
    /\ UNCHANGED <<dry_run, bundleVars, fetchVars, input_json, listVars, pending_exc, raised, interrupted,
                   bundles_unattempted, summary, attempted, load_raised,
                   parse_result, regVars, storeVars, history>>

BundleUuid(i) == _parse_bundle(input_json.items[i]).value.bundle_uuid

\* lines 183-186 and 121-129: the next parsed bundle is taken and _load_bundle
\* calls load_dict, which registers the metadata under a new uuid (line 591),
\* its fourth argument, the bundle uuid, being the file version
LoadNext ==
    /\ pc = "loading"
    /\ count < Len(bundles_parsed)
    /\ attempted' = Append(attempted, bundles_parsed[count + 1])
    /\ RegistrarEntered(<<next_uuid, BundleUuid(bundles_parsed[count + 1])>>)
    /\ next_uuid' = next_uuid + 1
    /\ file_info_list' = <<>>
    /\ pc' = "load_meta"
    /\ UNCHANGED <<dry_run, bundle_requests, fetchVars, input_json, listVars, count, pending_exc, raised, interrupted,
                   bundles_unattempted, summary, load_raised, parse_result,
                   store, staged, put_requests, history>>

\* the number of names the assignments of lines 125 and 138 unpack a result into
UnpackTargets == 3

\* the assignment raises ValueError unless the tuple has as many items as names
Unpack(tuple) == IF Len(tuple) = UnpackTargets THEN "none" ELSE "ValueError"

\* the entry of file_info_list made of a result (lines 132 and 146)
FileInfoEntry(result, indexed) ==
    [uuid |-> result[1], version |-> result[2], name |-> result[3], indexed |-> indexed]

\* lines 125-133 and 186-187: load_dict raises, or it returns and its result is
\* unpacked; an exception leaves _load_bundle and is caught by line 187.  When
\* the result is unpacked the metadata entry is appended and the loop over the
\* data files (lines 135-146) and load_bundle (line 149) follow; no result
\* that the registrar returns has UnpackTargets items.
LoadDictEnds ==
    /\ pc = "load_meta"
    /\ rpc \in {"returned", "raised"}
    /\ LET exc == IF rpc = "raised" THEN r_exc.class ELSE Unpack(r_result)
       IN  IF exc # "none"
           THEN /\ pc' = "load_except"
                /\ load_raised' = load_raised \cup {<<bundles_parsed[count + 1], exc>>}
                /\ UNCHANGED file_info_list
           ELSE /\ pc' = "load_files"
                /\ file_info_list' = Append(file_info_list, FileInfoEntry(r_result, TRUE))
                /\ UNCHANGED load_raised
    /\ RegistrarIdle
    /\ UNCHANGED <<dry_run, bundle_requests, fetchVars, input_json, listVars, count, pending_exc, raised, interrupted,
                   bundles_unattempted, summary, attempted, parse_result,
                   storeVars, history>>

\* lines 188-191: the handler records the bundle and the loop goes on
RecordLoadFailedMut ==
    /\ pc = "load_except"
    /\ bundles_failed_parsed' = Append(bundles_failed_parsed, bundles_parsed[count + 1])
    /\ pc' = "finally"
    /\ UNCHANGED <<dry_run, bundleVars, fetchVars, input_json, bundles_parsed, bundles_failed_unparsed,
                   bundles_loaded, count, pending_exc, raised, interrupted, bundles_unattempted,
                   summary, attempted, load_raised, parse_result, regVars, storeVars,
                   history>>

\* the handler with a rollback of what the store holds
RecordLoadFailedRollback ==
    /\ pc = "load_except"
    /\ bundles_failed_parsed' = Append(bundles_failed_parsed, bundles_parsed[count + 1])
    /\ count' = count + 1
    /\ pc' = "loading"
    /\ store' = EmptyStore
    /\ UNCHANGED <<dry_run, bundleVars, fetchVars, input_json, bundles_parsed,
                   bundles_failed_unparsed, bundles_loaded, pending_exc, raised, interrupted,
                   bundles_unattempted, summary, attempted, load_raised, parse_result,
                   regVars, staged, put_requests, next_uuid, history>>

RecordLoadFailed ==
    /\ pc = "load_except"
    /\ bundles_failed_parsed' = Append(bundles_failed_parsed, bundles_parsed[count + 1])
    /\ count' = count + 1
    /\ pc' = "loading"
    /\ UNCHANGED <<dry_run, bundleVars, fetchVars, input_json, bundles_parsed, bundles_failed_unparsed,
                   bundles_loaded, pending_exc, raised, interrupted, bundles_unattempted,
                   summary, attempted, load_raised, parse_result, regVars, storeVars,
                   history>>

\* the loop of _load_all_bundles ends (line 194) and the try block with it
LoadAllReturns ==
    /\ pc = "loading"
    /\ count = Len(bundles_parsed)
    /\ pc' = "finally"
    /\ UNCHANGED <<dry_run, bundleVars, fetchVars, input_json, listVars, count, pending_exc, raised, interrupted,
                   bundles_unattempted, summary, attempted, load_raised,
                   parse_result, regVars, storeVars, history>>

\* the positions of the try block of lines 202-204
InTry == pc \in {"parse_check", "parsing", "loading", "load_meta", "load_except"}

\* lines 205-207: a KeyboardInterrupt arrives inside the try block, whatever the
\* registrar is doing, and is caught
KeyboardInterruptMut ==
    /\ InTry
    /\ ~interrupted
    /\ interrupted' = TRUE
    /\ pc' = IF pc \in {"load_meta", "load_except"} THEN "load_except" ELSE "finally"
    /\ RegistrarIdle
    /\ UNCHANGED <<dry_run, bundleVars, fetchVars, input_json, listVars, count, pending_exc, raised,
                   bundles_unattempted, summary, attempted, load_raised,
                   parse_result, storeVars, history>>

KeyboardInterrupt ==
    /\ InTry
    /\ interrupted' = TRUE
    /\ pc' = "finally"
    /\ RegistrarIdle
    /\ UNCHANGED <<dry_run, bundleVars, fetchVars, input_json, listVars, count, pending_exc, raised,
                   bundles_unattempted, summary, attempted, load_raised,
                   parse_result, storeVars, history>>

\* lines 209-212
UnattemptedMut ==
    input_json.len - Len(bundles_failed_unparsed) - Len(bundles_loaded)

Unattempted ==
    input_json.len - Len(bundles_failed_unparsed)
        - Len(bundles_failed_parsed) - Len(bundles_loaded)

\* lines 208-221: the summary, after which a pending exception propagates
Finally ==
    /\ pc = "finally"
    /\ bundles_unattempted' = Unattempted
    /\ summary' = IF Len(bundles_failed_parsed) > 0 \/ Len(bundles_failed_unparsed) > 0
                  THEN "counts" ELSE "all"
    /\ raised' = pending_exc
    /\ pc' = "done"
    /\ UNCHANGED <<dry_run, bundleVars, fetchVars, input_json, listVars, count, pending_exc, interrupted,
                   attempted, load_raised, parse_result, regVars, storeVars, history>>

(***************************************************************************)
(* _parse_bundle called on its own, as tests/test_standard_loader.py does. *)
(***************************************************************************)
ParseBundleCall ==
    /\ pc = "parse_one"
    /\ parse_result' = _parse_bundle(input_json.items[1])
    /\ pc' = "parsed"
    /\ UNCHANGED <<dry_run, bundleVars, fetchVars, batchVars, regVars, storeVars, history>>

(***************************************************************************)
(* The specifications.                                                     *)
(***************************************************************************)
FirstFreshUuid == MaxFileUuids + 1

InitRest ==
    /\ dry_run \in BOOLEAN
    /\ bundles_parsed = <<>>
    /\ bundles_failed_unparsed = <<>>
    /\ bundles_loaded = <<>>
    /\ bundles_failed_parsed = <<>>
    /\ count = 0
    /\ pending_exc = "none"
    /\ raised = "none"
    /\ interrupted = FALSE
    /\ bundles_unattempted = 0
    /\ summary = "none"
    /\ attempted = <<>>
    /\ load_raised = {}
    /\ parse_result = [exc |-> "none", value |-> NoBundle]
    /\ rpc = "idle"
    /\ r_key = <<0, 0>>
    /\ r_status = 0
    /\ now = 0
    /\ wait = WaitStart
    /\ polls = 0
    /\ r_result = <<>>
    /\ r_exc = [class |-> "none", msg |-> "none"]
    /\ store = EmptyStore
    /\ staged = 0
    /\ put_requests = 0
    /\ next_uuid = FirstFreshUuid
    /\ history = <<>>
    /\ fpc = "idle"
    /\ f_order = <<>>
    /\ f_urls = <<>>
    /\ f_size = [t |-> "None", n |-> 0]
    /\ s3_metadata = EmptyMetadata
    /\ gs_metadata = EmptyMetadata
    /\ attempt_refresh = TRUE
    /\ refreshes = 0
    /\ f_attempts = <<>>
    /\ f_warned = {}
    /\ f_last = "none"
    /\ f_observed = {}
    /\ file_reference = NoReference
    /\ file_info_list = <<>>
    /\ bundle_requests = <<>>

\* no metadata credentials are given to the DssUploader (its defaults)
NoMetaCred ==
    /\ aws_meta_cred = FALSE
    /\ gcp_meta_cred = FALSE

\* load_all_bundles is called once on a document
Init ==
    /\ input_json \in Documents
    /\ pc = "start"
    /\ InitRest
    /\ NoMetaCred

Registrar == StageUpload \/ PutFile \/ HeadFile \/ Sleep

Next ==
    \/ EnterLoadAll \/ ParseCheck \/ ParseNext \/ ParseAllReturns
    \/ LoadNext \/ LoadDictEnds \/ RecordLoadFailed \/ LoadAllReturns
    \/ KeyboardInterrupt \/ Finally
    \/ Registrar \/ StoreCopyCompletes

Spec == Init /\ [][Next]_vars

\* the registrar is called directly, MaxCalls times at most
InitRegistrar ==
    /\ input_json = [t |-> "list", items |-> <<>>, len |-> 0]
    /\ pc = "idle"
    /\ InitRest
    /\ NoMetaCred

NextRegistrar == CallUpload \/ CallEnds \/ Registrar \/ StoreCopyCompletes

SpecRegistrar == InitRegistrar /\ [][NextRegistrar]_vars

\* a call of the registrar runs on: time.sleep returns and requests are answered
FairRegistrar == SpecRegistrar /\ WF_vars(Registrar)

\* upload_cloud_file_by_reference is called directly, once, by an uploader
\* with or without metadata credentials
InitReference ==
    /\ input_json = [t |-> "list", items |-> <<>>, len |-> 0]
    /\ pc = "idle"
    /\ InitRest
    /\ aws_meta_cred \in BOOLEAN
    /\ gcp_meta_cred \in BOOLEAN

Fetch == RefLoop \/ S3Head \/ S3Refresh \/ GsGet \/ Consolidate

NextReference == CallReference \/ Fetch \/ Registrar \/ CallEnds \/ StoreCopyCompletes

SpecReference == InitReference /\ [][NextReference]_vars

\* _parse_bundle is called once on a raw entry
InitParse ==
    /\ input_json \in {[t |-> "list", items |-> <<b>>, len |-> 1] : b \in RawBundles}
    /\ pc = "parse_one"
    /\ InitRest
    /\ NoMetaCred

NextParse == ParseBundleCall

SpecParse == InitParse /\ [][NextParse]_vars

(***************************************************************************)
(* The claims.                                                             *)
(***************************************************************************)
NoDuplicates(list) == Cardinality(Range(list)) = Len(list)

Recorded == Range(bundles_failed_unparsed) \cup Range(bundles_loaded) \cup Range(bundles_failed_parsed)

\* load_all_bundles has returned to its caller, no interrupt having arrived
Completed == pc = "done" /\ ~interrupted /\ raised = "none"

\* C1: in every state of load_all_bundles no input entry is in more than one of
\* the lists unparsed, loaded and load-failed (nor twice in one), loaded and
\* load-failed hold parsed bundles only, and when the run on a list returns
\* without an interrupt len(input) = |unparsed| + |loaded| + |load-failed| and
\* unattempted = 0.
C1_ListsAccountForInput ==
    /\ NoDuplicates(bundles_failed_unparsed)
    /\ NoDuplicates(bundles_loaded)
    /\ NoDuplicates(bundles_failed_parsed)
    /\ Range(bundles_failed_unparsed) \cap Range(bundles_loaded) = {}
    /\ Range(bundles_failed_unparsed) \cap Range(bundles_failed_parsed) = {}
    /\ Range(bundles_loaded) \cap Range(bundles_failed_parsed) = {}
    /\ Range(bundles_loaded) \cup Range(bundles_failed_parsed) \subseteq Range(bundles_parsed)
    /\ Recorded \cup Range(bundles_parsed) \subseteq 1..Len(input_json.items)
    /\ (Completed /\ IsList(input_json)) =>
          /\ input_json.len = Len(bundles_failed_unparsed) + Len(bundles_loaded)
                                + Len(bundles_failed_parsed)
          /\ bundles_unattempted = 0

\* a run over a list returned with an unparsed entry and two load-failed bundles
C1_Witness ==
    /\ Completed
    /\ Len(bundles_failed_unparsed) = 1
    /\ Len(bundles_failed_parsed) = 2

\* the bundles whose iteration of the loop of _load_all_bundles has ended
Finished == Range(bundles_loaded) \cup Range(bundles_failed_parsed)

\* C2: a KeyboardInterrupt that arrives while load_all_bundles parses or loads
\* is caught (the call returns), nothing is attempted, requested or recorded
\* after it, loaded and load-failed hold exactly the bundles whose load attempt
\* ended before it (every attempted bundle but the one in flight), and
\* unattempted counts every entry that is in none of the three lists.
C2_InterruptKeepsTallies ==
    /\ [](interrupted => (pc \in {"finally", "done"} /\ rpc = "idle" /\ raised = "none"))
    /\ [][interrupted =>
            /\ attempted' = attempted
            /\ listVars' = listVars
            /\ put_requests' = put_requests
            /\ staged' = staged
            /\ next_uuid' = next_uuid]_vars
    /\ []((interrupted /\ pc = "done") =>
            /\ Finished \subseteq Range(attempted)
            /\ \A i \in 1..Len(attempted) :
                  attempted[i] \notin Finished => i = Len(attempted)
            /\ bundles_unattempted = Cardinality((1..input_json.len) \ Recorded))

\* an interrupt arrived while the second bundle was being registered
C2_Witness ==
    /\ interrupted
    /\ pc = "done"
    /\ Len(attempted) = 2
    /\ Len(bundles_failed_parsed) = 1
    /\ bundles_unattempted = 2

\* C3: when _load_bundle raises for a parsed bundle, the bundle is appended to
\* load-failed and not to loaded, and the bundles after it are still attempted:
\* a run that returns without interrupt has attempted every parsed bundle.
C3_FailureDoesNotAbort ==
    /\ \A p \in load_raised :
          /\ p[1] \notin Range(bundles_loaded)
          /\ \/ p[1] \in Range(bundles_failed_parsed)
             \/ pc = "load_except" /\ bundles_parsed[count + 1] = p[1]
             \/ interrupted
    /\ (Completed /\ IsList(input_json)) =>
          /\ attempted = bundles_parsed
          /\ {p[1] : p \in load_raised} \subseteq Range(bundles_failed_parsed)

\* the first of three parsed bundles was refused by the store, the others were
\* attempted all the same
C3_Witness ==
    /\ Completed
    /\ Len(attempted) = 3
    /\ <<attempted[1], "UnexpectedResponseError">> \in load_raised
    /\ attempted[1] \in Range(bundles_failed_parsed)

\* the errors the staging bucket and the store make the registrar raise
RegistrarErrors == {"ClientError", "UnexpectedResponseError", "RuntimeError"}

\* C4: a batch of valid bundles (no dry run) whose registrations the store all accepted ends
\* with |loaded| = |parsed| = len(input) and nothing unparsed or load-failed.
C4_ValidBatchIsLoaded ==
    (/\ Completed
     /\ ~dry_run
     /\ IsList(input_json)
     /\ \A i \in 1..Len(input_json.items) : _parse_bundle(input_json.items[i]).exc = "none"
     /\ \A p \in load_raised : p[2] \notin RegistrarErrors)
    => /\ Len(bundles_loaded) = input_json.len
       /\ Len(bundles_parsed) = input_json.len
       /\ Len(bundles_failed_unparsed) = 0
       /\ Len(bundles_failed_parsed) = 0

\* C5: a document that is not a list makes load_all_bundles raise ParseError,
\* with the four lists empty and no registration request issued.
C5_NonListRaisesParseError ==
    (pc = "done" /\ ~IsList(input_json) /\ ~interrupted)
    => /\ raised = "ParseError"
       /\ bundles_parsed = <<>> /\ bundles_failed_unparsed = <<>>
       /\ bundles_loaded = <<>> /\ bundles_failed_parsed = <<>>
       /\ put_requests = 0

\* C6: on a list every element is parsed on its own: no exception leaves
\* _parse_all_bundles, and once it has returned |parsed| + |unparsed| = len(input).
C6_ParseAllNeverRaises ==
    IsList(input_json) =>
       /\ pending_exc = "none"
       /\ (pc \in {"loading", "load_meta", "load_except"}) =>
             Len(bundles_parsed) + Len(bundles_failed_unparsed) = input_json.len

\* C7: _parse_bundle returns a ParsedBundle or raises ParseError, never another
\* exception.
C7_OnlyParseError ==
    pc = "parsed" => parse_result.exc \in {"none", "ParseError"}

\* the direct calls before the i-th that were for the same key
CallsBefore(i) == {j \in 1..(i - 1) : history[j].key = history[i].key}

C9_ReplyDecidesResult ==
    /\ r_status \in {200, 201} =>
          /\ rpc \in {"returned", "idle"}
          /\ polls = 0
          /\ r_result # <<>>
          /\ r_result[4] = (r_status = 200)
    /\ r_status \notin {0, 200, 201, 202} =>
          /\ rpc \in {"raised", "idle"}
          /\ polls = 0
          /\ r_result = <<>>
          /\ r_exc.class = "UnexpectedResponseError"
    /\ \A i \in 1..Len(history) :
          /\ history[i].status \in {200, 201} =>
                /\ history[i].outcome = "returned"
                /\ history[i].result[4] = (history[i].status = 200)
          /\ history[i].status \notin {0, 200, 201, 202} =>
                /\ history[i].outcome = "raised"
                /\ history[i].exc.class = "UnexpectedResponseError"

\* a call answered 201 ended, and the next call for the key was answered 200
C9_Witness ==
    /\ Len(history) = 1
    /\ history[1].status = 201 /\ history[1].result[4] = FALSE
    /\ r_status = 200 /\ rpc = "returned" /\ polls = 0
    /\ r_result[4] = TRUE

\* C10: after a 202 reply the registrar polls, and always stops polling: it
\* returns with alreadyPresent = false right after a poll that finds the
\* object, it raises RuntimeError (registration FAILED) when the deadline has
\* passed without one, it issues no poll once the deadline has passed and
\* returns no result tuple after the timeout.
C10_PollingEnds ==
    /\ [](rpc \in {"poll", "sleep"} => r_status = 202)
    /\ [][(rpc = "put" /\ r_status' = 202) => rpc' = "poll"]_vars
    /\ [][(rpc = "poll" /\ polls' # polls) =>
             /\ now < timeout_seconds
             /\ polls' = polls + 1
             /\ rpc' \in {"returned", "sleep", "raised"}]_vars
    /\ [][(rpc = "poll" /\ rpc' = "returned") =>
             /\ polls' = polls + 1
             /\ StoreState(r_key) = "present"
             /\ r_result'[4] = FALSE]_vars
    /\ [][(rpc = "poll" /\ rpc' # "poll" /\ now >= timeout_seconds) =>
             /\ rpc' = "raised"
             /\ polls' = polls
             /\ r_exc' = [class |-> "RuntimeError", msg |-> "registration FAILED"]]_vars
    /\ [](r_exc.msg = "registration FAILED" =>
             /\ r_result = <<>>
             /\ now >= timeout_seconds
             /\ \A i \in 1..Len(history) :
                   history[i].exc.msg = "registration FAILED" => history[i].outcome = "raised")
    /\ (rpc \in {"poll", "sleep"}) ~> (rpc \in {"returned", "raised"})

\* the deadline passed after five polls that did not find the object
C10_Witness ==
    /\ rpc = "raised"
    /\ r_exc.msg = "registration FAILED"
    /\ polls = 5

RECURSIVE Pow(_, _)
Pow(b, e) == IF e = 0 THEN 1 ELSE b * Pow(b, e - 1)

\* C11: during polling the wait interval starts at 1; after every poll that
\* reports not-found the registrar sleeps the current interval and then sets it
\* to min(10, interval * factor); so the interval of the k-th sleep is
\* min(10, factor^(k-1)), it never decreases and always lies in [1, 10].
C11_BackoffInterval ==
    /\ [](1 <= wait /\ wait <= 10)
    /\ []((rpc = "poll" /\ polls = 0) => wait = 1)
    /\ [](rpc = "sleep" => wait = Min(10, Pow(UPLOAD_BACKOFF_FACTOR, polls - 1)))
    /\ [][(rpc = "poll" /\ rpc' = "sleep") => (wait' = wait /\ polls' = polls + 1)]_vars
    /\ [][(rpc = "sleep" /\ rpc' = "poll") =>
             /\ now' = now + wait
             /\ wait' = Min(10, wait * UPLOAD_BACKOFF_FACTOR)
             /\ wait' >= wait]_vars

\* the fifth sleep, of the capped interval
C11_Witness ==
    /\ rpc = "sleep"
    /\ polls = 5
    /\ wait = 10
    /\ wait < Pow(UPLOAD_BACKOFF_FACTOR, polls - 1)

\* C12: a poll answered with neither success nor not-found ends the call at
\* once (no further sleep or poll) with UnexpectedResponseError, not with the
\* RuntimeError of the timeout.
C12_PollErrorIsUnexpectedResponse ==
    /\ r_exc.msg = "Unexpected server response during registration" =>
          /\ rpc \in {"raised", "idle"}
          /\ r_exc.class = "UnexpectedResponseError"
    /\ \A i \in 1..Len(history) :
          history[i].exc.msg = "Unexpected server response during registration" =>
             history[i].exc.class = "UnexpectedResponseError"

\* C13: in a dry run a registration returns a synthesized result, nothing is
\* uploaded to the staging bucket and no request is sent to the store.
C13_DryRunWritesNothing ==
    dry_run =>
       /\ staged = 0
       /\ put_requests = 0
       /\ polls = 0
       /\ store = EmptyStore

\* a metadata fetch has returned to the loop of _create_file_reference
FetchDone == fpc = "loop" /\ f_last # "none"

\* the answer to the last head request of the current metadata fetch
LastCode == IF f_attempts = <<>> THEN "none" ELSE f_attempts[Len(f_attempts)].code

\* the call of upload_cloud_file_by_reference ended by raising class
RefRaised(class) ==
    \/ rpc = "raised" /\ r_exc.class = class
    \/ rpc = "idle" /\ history # <<>> /\ history[1].exc.class = class

\* C14 as stated: for both providers a metadata fetch of an object that is not
\* found or forbidden never raises; it returns an empty record and warns.
C14_FetchNeverRaises ==
    /\ r_exc.msg \notin {"s3", "gs", "refresh"}
    /\ (FetchDone /\ LastCode # "200") =>
          /\ f_warned # {}
          /\ (f_last = "s3" => s3_metadata = EmptyMetadata)
          /\ (f_last = "gs" => gs_metadata = EmptyMetadata)

\* C14 as amended: get_s3_file_metadata never raises because of the answer to
\* head_object (404, 401, 403 or another error code): it returns an empty
\* record and warns, CloudUrlNotFound for 404 and CloudUrlAccessWarning
\* otherwise, in particular with insufficient default credentials and no
\* metadata credential; only a failing credential refresh raises.
\* get_gs_file_metadata returns an empty record and warns CloudUrlNotFound
\* when the object is not found, and raises Forbidden when access is forbidden.
C14_OnlyGsForbiddenRaises ==
    /\ r_exc.msg # "s3"
    /\ r_exc.msg = "refresh" =>
          /\ aws_meta_cred /\ f_last = "s3" /\ refreshes = 1
          /\ LastCode \in {"401", "403"}
    /\ r_exc.msg = "gs" =>
          /\ r_exc.class = "Forbidden" /\ f_last = "gs" /\ LastCode = "403"
    /\ (f_last = "gs" /\ LastCode = "403") => RefRaised("Forbidden")
    /\ (FetchDone /\ f_last = "s3" /\ LastCode # "200") =>
          /\ s3_metadata = EmptyMetadata
          /\ f_warned = {IF LastCode = "404" THEN "CloudUrlNotFound"
                         ELSE "CloudUrlAccessWarning"}
    /\ (f_last = "s3" /\ ~aws_meta_cred /\ LastCode \in {"401", "403"}) =>
          /\ FetchDone \/ fpc \in {"idle", "consolidate"}
          /\ Len(f_attempts) = 1
          /\ s3_metadata = EmptyMetadata
    /\ (FetchDone /\ f_last = "gs" /\ LastCode # "200") =>
          /\ LastCode = "404"
          /\ gs_metadata = EmptyMetadata
          /\ f_warned = {"CloudUrlNotFound"}

\* the default credentials are refused, there is no metadata credential, and
\* the fetch returned an empty record
C14_Witness ==
    /\ FetchDone
    /\ f_last = "s3"
    /\ ~aws_meta_cred
    /\ LastCode = "403"
    /\ s3_metadata = EmptyMetadata
    /\ f_warned = {"CloudUrlAccessWarning"}

\* C15: without a GCP metadata credential, when the default credential is not
\* authorized for the object, get_gs_file_metadata raises Forbidden to its
\* caller and returns no metadata record.
C15_GsForbiddenRaises ==
    (f_last = "gs" /\ ~gcp_meta_cred /\ LastCode = "403") =>
       /\ f_attempts[1].client = "primary"
       /\ Len(f_attempts) = 1
       /\ fpc = "idle"
       /\ file_reference = NoReference
       /\ RefRaised("Forbidden")

C15_Witness ==
    /\ ~gcp_meta_cred
    /\ f_order = <<GsUrl>>
    /\ LastCode = "403"
    /\ rpc = "raised"
    /\ r_exc.class = "Forbidden"

\* C16: one metadata fetch makes at most two head requests and at most one
\* credential refresh; the refresh and the retry happen only after a first
\* answer of 401 or 403 and with a metadata credential configured (never after
\* 404, never without the credential); a retry that fails ends the fetch with
\* a warning and an empty record, not with an exception.
C16_AtMostOneRetry ==
    /\ Len(f_attempts) <= 2
    /\ refreshes <= 1
    /\ f_last = "gs" => (Len(f_attempts) <= 1 /\ refreshes = 0)
    /\ refreshes = 1 => (aws_meta_cred /\ f_attempts[1].code \in {"401", "403"})
    /\ Len(f_attempts) = 2 => refreshes = 1
    /\ (Len(f_attempts) = 2 /\ LastCode # "200") =>
          /\ r_exc.msg \notin {"s3", "refresh"}
          /\ FetchDone => (s3_metadata = EmptyMetadata /\ f_warned # {})

\* the retry after the refresh was refused too
C16_Witness ==
    /\ FetchDone
    /\ Len(f_attempts) = 2
    /\ f_attempts[1].code = "401"
    /\ f_attempts[2].code = "403"
    /\ refreshes = 1
    /\ s3_metadata = EmptyMetadata

\* C17 as stated: the first request of every metadata fetch uses the primary
\* credential; the elevated credential is used only for the retry after an
\* authorization failure of the first request.
C17_PrimaryFirst ==
    \A i \in 1..Len(f_attempts) :
       /\ i = 1 => f_attempts[i].client = "primary"
       /\ f_attempts[i].client = "elevated" =>
             (i = 2 /\ f_attempts[1].code \in {"401", "403"})

\* C17 as amended: every request of a metadata fetch, the first included, uses
\* the metadata (elevated) credential when one is configured for the provider
\* and the default (primary) credential otherwise; the retry after an
\* authorization failure uses the refreshed metadata credential.
C17_ClientByConfiguration ==
    \A i \in 1..Len(f_attempts) :
       /\ f_last = "s3" =>
             f_attempts[i].client = (IF aws_meta_cred THEN "elevated" ELSE "primary")
       /\ f_last = "gs" =>
             f_attempts[i].client = (IF gcp_meta_cred THEN "elevated" ELSE "primary")
       /\ i = 2 => f_attempts[i].client = "elevated"

\* with a metadata credential both the first request and the retry used it
C17_Witness ==
    /\ aws_meta_cred
    /\ Len(f_attempts) = 2
    /\ f_attempts[1].client = "elevated"
    /\ f_attempts[1].code = "403"
    /\ f_attempts[2].client = "elevated"

\* C18: the size check fails with MissingInputFileSize when the declared size
\* is absent, else with InconsistentFileSizeValues when the size observed for
\* any of the urls differs from the declared size, else it succeeds and the
\* size of the output is the declared size.
C18_SizeCheck ==
    (file_reference.state # "none" /\ f_size.t # "text") =>
       IF f_size.t = "None"
       THEN file_reference.state = "failed" /\ r_exc.class = "MissingInputFileSize"
       ELSE IF \E o \in f_observed : o # f_size.n
       THEN file_reference.state = "failed" /\ r_exc.class = "InconsistentFileSizeValues"
       ELSE file_reference.state = "built" /\ file_reference.size = f_size.n

\* a url whose scheme is not s3 or gs, or whose bucket or key is empty
IsBadUrl(url) == url.scheme \notin {"s3", "gs"} \/ url.bucket = "" \/ url.key = ""

HasBadUrl == \E i \in 1..Len(f_order) : IsBadUrl(f_order[i])

\* C19 as stated: a call whose url set holds a bad url raises FileURLError,
\* whatever the other urls and the iteration order.
C19_BadUrlRaisesFileURLError ==
    HasBadUrl =>
       /\ fpc # "consolidate"
       /\ file_reference = NoReference
       /\ fpc = "idle" => RefRaised("FileURLError")

\* C19 as amended: a call whose url set holds a bad url always raises and
\* registers nothing; it raises FileURLError when the loop reaches the bad
\* url, which it does unless the metadata fetch of a url iterated before it
\* raises (Forbidden of get_gs_file_metadata, or the error of a failing
\* credential refresh), and that error is then the one raised.
C19_BadUrlNeverRegisters ==
    HasBadUrl =>
       /\ fpc # "consolidate"
       /\ file_reference = NoReference
       /\ rpc \in {"idle", "raised"}
       /\ staged = 0 /\ put_requests = 0
       /\ fpc = "idle" =>
             \/ RefRaised("FileURLError")
             \/ /\ RefRaised("Forbidden") \/ RefRaised("ClientError")
                /\ r_exc.msg \in {"gs", "refresh"}
                /\ ~IsBadUrl(f_order[1])
                /\ f_attempts # <<>>
       /\ (IsBadUrl(f_order[1]) /\ fpc = "idle") =>
             (RefRaised("FileURLError") /\ f_attempts = <<>>)

\* the metadata of a good url was fetched, then the url without a key raised
C19_Witness ==
    /\ f_order = <<S3Url1, NoKeyUrl>>
    /\ rpc = "raised"
    /\ r_exc.class = "FileURLError"
    /\ Len(f_attempts) = 1
    /\ LastCode = "200"

\* the cloud urls _create_file_reference refuses
InvalidCloudUrls == {"https://example.com", "s3://bucketonly"}

\* the entry of input_json at position i has a data file with such a url
HasInvalidUrl(i) ==
    \E f \in 1..Len(input_json.items[i].files) :
       \E u \in 1..Len(input_json.items[i].files[f].urls) :
          input_json.items[i].files[f].urls[u].url \in InvalidCloudUrls

\* C20: _load_bundle raises the registration error to its caller unchanged: for
\* a parsed bundle whose data file has an invalid url (the registration of its
\* metadata having succeeded) it raises FileURLError.
C20_BadUrlBundleRaisesFileURLError ==
    \A p \in load_raised :
       (HasInvalidUrl(p[1]) /\ p[2] \notin RegistrarErrors) => p[2] = "FileURLError"

\* _parse_bundle has been called on a bundle with one file-info
ParsedFile == pc = "parsed" /\ Len(input_json.items[1].files) = 1

FileInfo == input_json.items[1].files[1]

\* the file-info is well-formed, whatever its file_guid
GuidOnly == [FileInfo EXCEPT !.guid = GoodFile.guid] = GoodFile

\* the positions of the UUID substrings of a file_guid, in either case
UuidsOf(file_guid) == {i \in 1..Len(file_guid) : file_guid[i] \in {"u1", "u2", "U1"}}

\* two texts are the same UUID, whatever the case of their letters
SameUuid(a, b) == a = b \/ {a, b} \subseteq {"u1", "U1"}

\* C22: for a file_guid that holds exactly one UUID substring (in either case)
\* _get_file_uuid returns that UUID; for a file_guid that holds none, or two
\* or more, it raises ParseError.
C22_ExactlyOneUuid ==
    (ParsedFile /\ GuidOnly) =>
       IF Cardinality(UuidsOf(FileInfo.guid)) = 1
       THEN /\ parse_result.exc = "none"
            /\ \A i \in UuidsOf(FileInfo.guid) :
                  SameUuid(parse_result.value.data_files[1].file_uuid, FileInfo.guid[i])
       ELSE parse_result.exc = "ParseError"

\* the UUID of a file_guid that has it in upper case was returned
C22_Witness ==
    /\ ParsedFile
    /\ FileInfo.guid = <<"x", "U1">>
    /\ parse_result.exc = "none"
    /\ parse_result.value.data_files[1].file_uuid = "u1"

\* the file-info is well-formed, whatever its 'updated' and 'created'
VersionOnly ==
    [FileInfo EXCEPT !.updated = GoodFile.updated, !.created = GoodFile.created] = GoodFile

\* the value is a date-time with a timezone designator, as RFC3339 has it
Compliant(value) == value \in {"z", "offset"}

\* C23: _get_file_version returns the 'updated' value when it is RFC3339
\* compliant; when it is absent or not compliant it returns the 'created'
\* value if that is compliant; it raises ParseError when neither is.
C23_UpdatedThenCreated ==
    (ParsedFile /\ VersionOnly) =>
       IF Compliant(FileInfo.updated)
       THEN /\ parse_result.exc = "none"
            /\ parse_result.value.data_files[1].file_version = FileInfo.updated
       ELSE IF Compliant(FileInfo.created)
       THEN /\ parse_result.exc = "none"
            /\ parse_result.value.data_files[1].file_version = FileInfo.created
       ELSE parse_result.exc = "ParseError"

\* C24: an 'updated' value that is an ISO date-time without a timezone
\* designator is accepted and returned as it is, whatever 'created' is.
C24_NaiveUpdatedAccepted ==
    (ParsedFile /\ VersionOnly /\ FileInfo.updated = "naive") =>
       /\ parse_result.exc = "none"
       /\ parse_result.value.data_files[1].file_version = "naive"

\* the file-info is well-formed, whatever its 'urls'
UrlsOnly == [FileInfo EXCEPT !.has_urls = TRUE, !.urls = GoodFile.urls] = GoodFile

\* the entry of a urls list is an object that has the key 'url'
IsUrlObject(entry) == entry.t = "dict" /\ entry.has_url

\* C25: _get_cloud_urls raises ParseError when the file-info has no 'urls',
\* when 'urls' is empty, or when an entry of it is not an object with a 'url'
\* field; else it returns the set of the 'url' values of the entries.
C25_CloudUrls ==
    (ParsedFile /\ UrlsOnly) =>
       IF \/ ~FileInfo.has_urls
          \/ FileInfo.urls = <<>>
          \/ \E i \in 1..Len(FileInfo.urls) : ~IsUrlObject(FileInfo.urls[i])
       THEN parse_result.exc = "ParseError"
       ELSE /\ parse_result.exc = "none"
            /\ parse_result.value.data_files[1].cloud_urls
                  = {FileInfo.urls[i].url : i \in 1..Len(FileInfo.urls)}

\* the size a provider's metadata holds differs from the declared size n
Differs(metadata, n) == metadata.has_size /\ metadata.size # n

ConsolidationErrors == {"FileURLError", "MissingInputFileSize", "InconsistentFileSizeValues"}

\* C30: when the file reference cannot be made (FileURLError,
\* MissingInputFileSize or InconsistentFileSizeValues) nothing was written for
\* the file: nothing was uploaded to the staging bucket, no registration
\* request was issued and the store is as it was; and the declared size is
\* checked only when the metadata of every url has been fetched.
C30_FailedReferenceWritesNothing ==
    /\ r_exc.class \in ConsolidationErrors =>
          /\ rpc \in {"raised", "idle"}
          /\ file_reference.state # "built"
          /\ r_result = <<>>
          /\ staged = 0
          /\ put_requests = 0
          /\ store = EmptyStore
    /\ (fpc = "consolidate" \/ file_reference.state # "none") =>
          /\ f_urls = <<>>
          /\ \A i \in 1..Len(f_order) : ~IsBadUrl(f_order[i])
          /\ (\E i \in 1..Len(f_order) : f_order[i].scheme = "s3") => f_last # "none"
    /\ r_exc.class \in {"MissingInputFileSize", "InconsistentFileSizeValues"} =>
          /\ file_reference.state = "failed"
          /\ r_exc.msg = "size"

\* the sizes of both urls were fetched, they differ, and the call raised
C30_Witness ==
    /\ f_order = <<S3Url1, GsUrl>>
    /\ s3_metadata = Metadata(100)
    /\ gs_metadata = Metadata(200)
    /\ rpc = "raised"
    /\ r_exc.class = "InconsistentFileSizeValues"
    /\ staged = 0

\* C28: load_all_bundles on a list logs the summary 'Successfully loaded all
\* bundles!' only when every entry was loaded: unparsed, load-failed and
\* unattempted are all zero; a run that was interrupted with entries left
\* unattempted logs the counts instead.
C28_SuccessSummaryOnlyIfAllLoaded ==
    (IsList(input_json) /\ summary = "all") =>
       /\ Len(bundles_failed_unparsed) = 0
       /\ Len(bundles_failed_parsed) = 0
       /\ bundles_unattempted = 0
       /\ Len(bundles_loaded) = input_json.len

\* the data files of the parsed bundle at position i of input_json
DataFiles(i) == _parse_bundle(input_json.items[i]).value.data_files

\* the exceptions _load_bundle raised for the bundle at position i
LoadErrors(i) == {p[2] : p \in {q \in load_raised : q[1] = i}}

\* the errors a registration raises: those of the registrar, of the metadata
\* fetch and of the file reference
RegistrationErrors ==
    RegistrarErrors \cup ConsolidationErrors \cup {"Forbidden"}

\* the bundles whose call of _load_bundle has ended
LoadEnded == Finished \cup {p[1] : p \in load_raised}

\* the put_bundle requests for the bundle at position i
BundleRequests(i) ==
    {n \in 1..Len(bundle_requests) : bundle_requests[n].uuid = BundleUuid(i)}

\* C21: _load_bundle registers the metadata as one file, then every data file
\* by reference in list order, and when all of these succeeded the bundle
\* object, whose file list is the metadata entry (indexed) followed by one
\* entry (not indexed) per data file in order: 1 + n entries.
C21_RegistrationOrder ==
    \A i \in LoadEnded :
       (~dry_run /\ ~interrupted /\ LoadErrors(i) \cap RegistrationErrors = {}) =>
          \E n \in BundleRequests(i) :
             LET files == bundle_requests[n].files
             IN  /\ Len(files) = 1 + Len(DataFiles(i))
                 /\ files[1].indexed
                 /\ files[1].name = "metadata.json"
                 /\ \A j \in 2..Len(files) :
                       /\ ~files[j].indexed
                       /\ files[j].uuid = DataFiles(i)[j - 1].file_uuid

C29_SecondLoadReusesDataFiles ==
    (/\ Completed
     /\ ~dry_run
     /\ Len(attempted) = 2
     /\ input_json.items[attempted[1]] = input_json.items[attempted[2]]
     /\ \A i \in Range(attempted) : LoadErrors(i) \cap RegistrationErrors = {})
    => /\ Cardinality({k \in DOMAIN store :
                          /\ k[2] = BundleUuid(attempted[1])
                          /\ store[k] = [state |-> "present", writes |-> 1]}) = 2
       /\ put_requests = 2 * (1 + Len(DataFiles(attempted[1])))
       /\ Cardinality(DOMAIN store) = 2 + Len(DataFiles(attempted[1]))
=============================================================================
